---- MODULE Spec2Model ----
(***************************************************************************)
(* Workflow-Builder: the router (src/core/router.py), the agent node step  *)
(* (src/nodes/agent_node.py), the workflow executor (src/core/executor.py) *)
(* and the settings they read (config/settings.py).                        *)
(*                                                                         *)
(* Python strings are modelled as sequences of tokens.  Every token stands *)
(* for a fixed piece of text and belongs to one character class of the     *)
(* regular expressions the code uses: the marker literal, whitespace (\s), *)
(* word characters (\w) or other text.  Concatenating tokens never forms a *)
(* new occurrence of the marker literal, so a regex search over the text   *)
(* is a search over the token sequence.                                    *)
(***************************************************************************)
EXTENDS Naturals, Sequences, FiniteSets

\* ------------------------------------------------------------- settings

routing_key_marker == "ROUTING_KEY:"
default_routing_key == <<"__DEFAULT__">>
end_node_id == "END"
default_recursion_multiplier_off_by_one == 3 + 1
default_recursion_multiplier == 3
default_recursion_base_off_by_one == 10 + 1
default_recursion_base == 10

\* --------------------------------------------------------------- bounds

\* Longest enumerated content string, in tokens.
MaxLen == 4
\* Calls of execute in one behaviour.
MaxRuns == 2
\* Clicks on Compile in one behaviour.
MaxCompiles == 2

\* --------------------------------------------------------------- tokens

Sp == " "
SpaceTokens == {Sp}
WordTokens == {"__DEFAULT__", "yes", "no", "bogus", "x", "y", "error",
               "Hello", "Done", "Just", "an", "answer", "None"}
OtherTokens == {".", "ERROR:", "LLM not initialized",
                "LLM with tools not available", "Error in node",
                "Workflow execution failed:"}
\* The tokens content strings are enumerated over.
Alphabet == {routing_key_marker, Sp, "__DEFAULT__", "yes", "bogus", "."}

\* A value that is not a str (content: Any); str() of it is the text "None".
NonStr == <<"<object>">>
isinstance_str(content) == content # NonStr
str(content) == IF content = NonStr THEN <<"None">> ELSE content

IsSpace(t) == t \in SpaceTokens
IsWord(t) == t \in WordTokens

\* ---------------------------------------------------------- regex parts

\* \s* from position i, greedy: the first position not matched.
RECURSIVE SkipSpaces(_, _)
SkipSpaces(s, i) ==
  IF i <= Len(s) /\ IsSpace(s[i]) THEN SkipSpaces(s, i + 1) ELSE i

\* \w* from position i, greedy: the first position not matched.
RECURSIVE SkipWord(_, _)
SkipWord(s, i) ==
  IF i <= Len(s) /\ IsWord(s[i]) THEN SkipWord(s, i + 1) ELSE i

\* str.strip(): leading and trailing whitespace removed.
RECURSIVE RStrip(_)
RStrip(s) ==
  IF Len(s) > 0 /\ IsSpace(s[Len(s)]) THEN RStrip(SubSeq(s, 1, Len(s) - 1))
  ELSE s
Strip(s) == LET t == RStrip(s) IN SubSeq(t, SkipSpaces(t, 1), Len(t))

\* rf"{marker}\s*(\w+)\s*$" matched with the marker at position i.
KeyStart(s, i) == SkipSpaces(s, i + 1)
KeyEnd(s, i) == SkipWord(s, KeyStart(s, i))
KeyPatternAt(s, i) ==
  /\ i >= 1 /\ i <= Len(s)
  /\ s[i] = routing_key_marker
  /\ KeyEnd(s, i) > KeyStart(s, i)
  /\ SkipSpaces(s, KeyEnd(s, i)) = Len(s) + 1

\* re.search(pattern, content): the leftmost match (0: no match).
KeyPatternSearch(s) ==
  IF \E i \in 1..Len(s) : KeyPatternAt(s, i)
  THEN CHOOSE i \in 1..Len(s) :
         KeyPatternAt(s, i) /\ \A j \in 1..(i - 1) : ~KeyPatternAt(s, j)
  ELSE 0
\* match.group(1).strip()
KeyGroup(s, i) == Strip(SubSeq(s, KeyStart(s, i), KeyEnd(s, i) - 1))

\* rf"\s*{marker}\s*\w+\s*$" matched from position i.
CleanPatternAt(s, i) == KeyPatternAt(s, SkipSpaces(s, i))
CleanPatternSearch(s) ==
  IF \E i \in 1..Len(s) : CleanPatternAt(s, i)
  THEN CHOOSE i \in 1..Len(s) :
         CleanPatternAt(s, i) /\ \A j \in 1..(i - 1) : ~CleanPatternAt(s, j)
  ELSE 0

\* --------------------------------------------------------------- Router

extract_routing_key_unanchored(content) ==
  IF ~isinstance_str(content) THEN default_routing_key
  ELSE IF \E i \in 1..Len(content) :
            content[i] = routing_key_marker /\ KeyEnd(content, i) > KeyStart(content, i)
       THEN LET i == CHOOSE i \in 1..Len(content) :
                       /\ content[i] = routing_key_marker
                       /\ KeyEnd(content, i) > KeyStart(content, i)
                       /\ \A j \in 1..(i - 1) :
                            ~(content[j] = routing_key_marker
                              /\ KeyEnd(content, j) > KeyStart(content, j))
            IN KeyGroup(content, i)
       ELSE default_routing_key

extract_routing_key(content) ==
  IF ~isinstance_str(content) THEN default_routing_key
  ELSE IF KeyPatternSearch(content) # 0
       THEN KeyGroup(content, KeyPatternSearch(content))
       ELSE default_routing_key

\* dict.get(key, default)
DictGet(d, k, dflt) == IF k \in DOMAIN d THEN d[k] ELSE dflt

route_no_fallback(last_content, path_map) ==
  IF last_content = <<>>
  THEN DictGet(path_map, default_routing_key, end_node_id)
  ELSE DictGet(path_map, extract_routing_key(last_content), end_node_id)

route_returns_key(last_content, path_map) ==
  IF last_content = <<>>
  THEN DictGet(path_map, default_routing_key, end_node_id)
  ELSE LET routing_key == extract_routing_key(last_content)
       IN IF routing_key \in DOMAIN path_map THEN path_map[routing_key]
          ELSE "__DEFAULT__"

\* Router.route on state.last_response_content.
route(last_content, path_map) ==
  IF last_content = <<>>
  THEN DictGet(path_map, default_routing_key, end_node_id)
  ELSE LET routing_key == extract_routing_key(last_content)
       IN IF routing_key \in DOMAIN path_map THEN path_map[routing_key]
          ELSE DictGet(path_map, default_routing_key, end_node_id)

clean_content_unanchored(content) ==
  IF ~isinstance_str(content) THEN str(content)
  ELSE IF \E i \in 1..Len(content) : content[i] = routing_key_marker
                                     /\ KeyEnd(content, i) > KeyStart(content, i)
       THEN LET i == CHOOSE i \in 1..Len(content) :
                       content[i] = routing_key_marker
                       /\ KeyEnd(content, i) > KeyStart(content, i)
            IN Strip(SubSeq(content, 1, i - 1)
                     \o SubSeq(content, KeyEnd(content, i), Len(content)))
       ELSE Strip(content)

\* Router.clean_content: re.sub of the one match (it ends the string), strip.
clean_content(content) ==
  IF ~isinstance_str(content) THEN str(content)
  ELSE IF CleanPatternSearch(content) # 0
       THEN Strip(SubSeq(content, 1, CleanPatternSearch(content) - 1))
       ELSE Strip(content)

\* ------------------------------------------------------------ AgentNode

MarkerDefaultSuffix == <<Sp, routing_key_marker, Sp>> \o default_routing_key

ensure_routing_key_keeps_invalid(content0, possible_keys) ==
  LET content == str(content0)
      m == KeyPatternSearch(content)
  IN IF m # 0 /\ KeyGroup(content, m) \in possible_keys THEN content
     ELSE content \o MarkerDefaultSuffix

ensure_routing_key_no_strip(content0, possible_keys) ==
  LET content == str(content0)
      m == KeyPatternSearch(content)
  IN IF m # 0
     THEN IF KeyGroup(content, m) \in possible_keys THEN content
          ELSE SubSeq(content, 1, m - 1) \o MarkerDefaultSuffix
     ELSE content \o MarkerDefaultSuffix

\* AgentNode._ensure_routing_key
ensure_routing_key(content0, possible_keys) ==
  LET content == str(content0)
      m == KeyPatternSearch(content)
  IN IF m # 0
     THEN IF KeyGroup(content, m) \in possible_keys THEN content
          ELSE Strip(SubSeq(content, 1, m - 1)) \o MarkerDefaultSuffix
     ELSE content \o MarkerDefaultSuffix

\* BaseNode.update_state
update_state(st, node_id, content) ==
  [input |-> st.input,
   node_outputs |-> [n \in DOMAIN st.node_outputs \cup {node_id} |->
                       IF n = node_id THEN content ELSE st.node_outputs[n]],
   last_response_content |-> content,
   current_node_id |-> node_id]

create_error_state_no_key(st, node_id, error_msg) ==
  update_state(st, node_id, <<"ERROR:", Sp, error_msg>>)

\* AgentNode._create_error_state
create_error_state(st, node_id, error_msg) ==
  update_state(st, node_id,
               <<"ERROR:", Sp, error_msg, Sp, routing_key_marker, Sp, "error">>)

\* What llm_with_tools.invoke does: it raises, or returns a result whose
\* content is a str.  PromptRaised: prepare_context / _prepare_prompt raised
\* and invoke was not reached; ExtractRaised: invoke returned a result on
\* which _extract_content raised.
NoResult == [kind |-> "none", content |-> <<>>]
Raised == [kind |-> "raise", content |-> <<>>]
PromptRaised == [kind |-> "raise_prompt", content |-> <<>>]
ExtractRaised == [kind |-> "raise_extract", content |-> <<>>]
RaiseKinds == {"raise", "raise_prompt", "raise_extract"}
StrResult(c) == [kind |-> "str", content |-> c]

\* The other shapes result.content can have: a list whose first item is a
\* dict with a text field (content: that text), a dict without one, or a
\* str (content: that str); an empty list; a value that is neither str nor
\* list (content: the value); and a result without a content attribute.
\* For the list without a text and the empty list, content is the text
\* str() of the list gives.
ListTextResult(c) == [kind |-> "list_dict_text", content |-> c]
ListStrResult(c) == [kind |-> "list_str", content |-> c]
ListNoTextResult == [kind |-> "list_dict_no_text", content |-> <<"[{'type': 'tool_use'}]">>]
ListEmptyResult == [kind |-> "list_empty", content |-> <<"[]">>]
OtherResult == [kind |-> "other", content |-> NonStr]
NoContentResult == [kind |-> "no_content", content |-> <<>>]

HelloDefault == <<"Hello", Sp, routing_key_marker, Sp, "__DEFAULT__">>
JustAnAnswer == <<"Just", Sp, "an", Sp, "answer">>
DoneBogus == <<"Done", Sp, routing_key_marker, Sp, "bogus">>
DoneX == <<"Done", Sp, routing_key_marker, Sp, "x">>
DoneY == <<"Done", Sp, routing_key_marker, Sp, "y">>
DoneYesTight == <<"Done", Sp, routing_key_marker, "yes", Sp>>
ModelContents == {HelloDefault, JustAnAnswer, DoneBogus, DoneX, DoneY,
                  DoneYesTight, <<>>, <<Sp>>}
ModelResults ==
  {Raised, ListEmptyResult} \cup {StrResult(c) : c \in ModelContents}

\* The ways the try block of AgentNode.execute can go.
StepOutcomes == ModelResults \cup {PromptRaised, ExtractRaised}

\* AgentNode._extract_content
extract_content(result) ==
  IF result.kind = "no_content" THEN <<>>
  ELSE IF result.kind = "str" THEN result.content
  ELSE IF result.kind \in {"list_dict_text", "list_str"} THEN result.content
  ELSE IF result.kind \in {"list_dict_no_text", "list_empty"} THEN <<>>
  ELSE str(result.content)

\* The model manager as the node steps of a run read it: LLMManager.__init__
\* (or initialize having failed), a successful initialize, and a manager
\* that passes the is_initialized check of a step while its llm_with_tools
\* reads as falsy (the process-wide manager cleared by another session
\* between the two reads, or a falsy tool-bound model).
\* api_key: the credential the base model was built with ("": no model);
\* tools: whether the tool list _tools has been filled in.
ManagerCleared ==
  [llm |-> FALSE, llm_with_tools |-> FALSE, initialized |-> FALSE, api_key |-> "",
   tools |-> FALSE]
ManagerBuilt(key) ==
  [llm |-> TRUE, llm_with_tools |-> TRUE, initialized |-> TRUE, api_key |-> key,
   tools |-> TRUE]
ManagerReady == ManagerBuilt("k1")
ManagerNoTools ==
  [llm |-> TRUE, llm_with_tools |-> FALSE, initialized |-> TRUE, api_key |-> "k1",
   tools |-> TRUE]

\* The manager with its models dropped (the tool list stays).
Dropped(mgr) == [ManagerCleared EXCEPT !.tools = mgr.tools]
Managers == {ManagerCleared, ManagerReady, ManagerNoTools}
is_initialized(mgr) == mgr.initialized /\ mgr.llm

Invokes_without_tools(mgr) == is_initialized(mgr)

\* Whether AgentNode.execute reaches llm_with_tools.invoke.
Invokes(mgr) == is_initialized(mgr) /\ mgr.llm_with_tools

agent_execute_keeps_empty(st, node_id, possible_keys, mgr, result) ==
  IF ~is_initialized(mgr)
  THEN create_error_state(st, node_id, "LLM not initialized")
  ELSE IF ~mgr.llm_with_tools
  THEN create_error_state(st, node_id, "LLM with tools not available")
  ELSE IF result.kind \in RaiseKinds
  THEN create_error_state(st, node_id, "Error in node")
  ELSE update_state(st, node_id,
                    ensure_routing_key(extract_content(result), possible_keys))

agent_execute_forgets(st, node_id, possible_keys, mgr, result) ==
  LET fresh == [st EXCEPT !.node_outputs = <<>>]
  IN IF ~is_initialized(mgr)
     THEN create_error_state(fresh, node_id, "LLM not initialized")
     ELSE IF ~mgr.llm_with_tools
     THEN create_error_state(fresh, node_id, "LLM with tools not available")
     ELSE IF result.kind \in RaiseKinds
     THEN create_error_state(fresh, node_id, "Error in node")
     ELSE IF Strip(extract_content(result)) = <<>>
     THEN create_error_state(fresh, node_id, "Error in node")
     ELSE update_state(fresh, node_id,
                       ensure_routing_key(extract_content(result), possible_keys))

\* AgentNode.execute on node node_id, the model's outcome being result.
agent_execute(st, node_id, possible_keys, mgr, result) ==
  IF ~is_initialized(mgr)
  THEN create_error_state(st, node_id, "LLM not initialized")
  ELSE IF ~mgr.llm_with_tools
  THEN create_error_state(st, node_id, "LLM with tools not available")
  ELSE IF result.kind \in RaiseKinds
  THEN create_error_state(st, node_id, "Error in node")
  ELSE IF Strip(extract_content(result)) = <<>>
  THEN create_error_state(st, node_id, "Error in node")
  ELSE update_state(st, node_id,
                    ensure_routing_key(extract_content(result), possible_keys))

\* --------------------------------------------------------- GraphBuilder

NodeDef(id, default_target, conditional_targets) ==
  [id |-> id, default_target |-> default_target,
   conditional_targets |-> conditional_targets]
NoTargets == [k \in {} |-> end_node_id]
OneTarget(k, t) == [j \in {<<k>>} |-> t]
TwoTargets(k1, t1, k2, t2) == [j \in {<<k1>>, <<k2>>} |-> IF j = <<k1>> THEN t1 ELSE t2]

\* The workflows a session holds: scenario A (one node), scenario D (the
\* two-node cycle), a node looping on its default target, a two-way branch;
\* and the structurally invalid ones: no node (E), two nodes sharing an id
\* (U), a conditional target naming no node (G, scenario E), a default
\* target naming no node (H).
Workflows ==
  [A |-> <<NodeDef("n1", end_node_id, NoTargets)>>,
   D |-> <<NodeDef("A", end_node_id, OneTarget("x", "B")),
           NodeDef("B", end_node_id, OneTarget("y", "A"))>>,
   L |-> <<NodeDef("L", "L", OneTarget("error", end_node_id))>>,
   C |-> <<NodeDef("P", "Q", TwoTargets("yes", "Q", "no", end_node_id)),
           NodeDef("Q", end_node_id, OneTarget("yes", "P"))>>,
   E |-> <<>>,
   U |-> <<NodeDef("A", "B", NoTargets), NodeDef("B", end_node_id, NoTargets),
           NodeDef("A", end_node_id, OneTarget("yes", "B"))>>,
   G |-> <<NodeDef("A", end_node_id, OneTarget("yes", "ghost"))>>,
   H |-> <<NodeDef("A", "B", OneTarget("yes", end_node_id)),
           NodeDef("B", "ghost", NoTargets)>>]
WorkflowIds == DOMAIN Workflows

build_path_map(node) ==
  [k \in DOMAIN node.conditional_targets \cup {default_routing_key} |->
     IF k = default_routing_key THEN node.default_target
     ELSE node.conditional_targets[k]]
possible_keys_of(node) == DOMAIN node.conditional_targets
compute_recursion_limit(nodes) ==
  default_recursion_base + default_recursion_multiplier * Len(nodes)

NodeIds(nodes) == {nodes[i].id : i \in 1..Len(nodes)}
NodeById(nodes, id) == nodes[CHOOSE i \in 1..Len(nodes) : nodes[i].id = id]

\* GraphBuilder.compile: the entry node, and per node id its routing table
\* and possible keys.
compile(nodes) ==
  [entry |-> nodes[1].id,
   table |-> [id \in NodeIds(nodes) |->
                [path_map |-> build_path_map(NodeById(nodes, id)),
                 possible_keys |-> possible_keys_of(NodeById(nodes, id))]]]
NoGraph == [entry |-> "", table |-> <<>>]

\* The targets a node names: its default target and its conditional ones.
TargetsOf(node) ==
  {node.default_target}
    \cup {node.conditional_targets[k] : k \in DOMAIN node.conditional_targets}

\* validate_workflow_structure: the error message, "" for a valid workflow.
validate_workflow_structure(nodes) ==
  IF Len(nodes) = 0 THEN "no nodes"
  ELSE IF Cardinality(NodeIds(nodes)) # Len(nodes) THEN "duplicate node id"
  ELSE IF \E i \in 1..Len(nodes) :
            ~(TargetsOf(nodes[i]) \subseteq NodeIds(nodes) \cup {end_node_id})
  THEN "unknown target"
  ELSE ""

\* ---------------------------------------------------------------- state

VARIABLES
  workflow,        \* id of the session's current workflow
  llm_manager,     \* the process-wide LLMManager
  compiled_graph,  \* session_state.compiled_graph (NoGraph: absent)
  recursion_limit, \* session_state.recursion_limit (0: absent)
  status,          \* position of execute: not_started, running, completed, failed
  config,          \* the config execute hands to compiled_graph.invoke
  state,           \* the WorkflowState threaded through the graph run
  next_node,       \* the node the graph run executes next, or END
  steps,           \* node steps executed in the current run
  llm_result,      \* outcome of the last step's model invocation
  final_state,     \* the state execute returned
  execution_log,   \* the log execute returned
  runs,            \* calls of execute so far
  error_msg,       \* what the last Compile click reported ("": success or none)
  compiles,        \* clicks on Compile so far
  openai_api_key,  \* settings.openai_api_key ("": not configured)
  executed,        \* ids of the nodes executed in the current run
  passed_log,      \* the execution_log argument of the last call of execute
  op,              \* Router / AgentNode function called last (direct calls)
  arg_content,     \* its content argument
  arg_node,        \* the node configuration it is called for
  arg_result,      \* the model result handed to _extract_content
  ret              \* what it returned

vars == <<workflow, llm_manager, compiled_graph, recursion_limit, status, config,
          state, next_node, steps, llm_result, final_state, execution_log, runs,
          error_msg, compiles, openai_api_key, executed, passed_log, op, arg_content, arg_node,
          arg_result, ret>>
runVars == <<workflow, llm_manager, compiled_graph, recursion_limit, status, config,
             state, next_node, steps, llm_result, final_state, execution_log, runs,
             error_msg, compiles, openai_api_key, executed, passed_log>>
callVars == <<op, arg_content, arg_node, arg_result, ret>>

Inputs == {"hi", "go"}
EmptyState(input) ==
  [input |-> input, node_outputs |-> <<>>, last_response_content |-> <<>>,
   current_node_id |-> ""]
NoCall == [str |-> <<>>, target |-> ""]

\* The session before Compile: a current workflow (authored or loaded), no
\* compiled graph, no run yet; the model manager cleared or initialized.
RunInit ==
  /\ workflow \in WorkflowIds
  /\ llm_manager \in Managers
  /\ compiled_graph = NoGraph
  /\ recursion_limit = 0
  /\ status = "not_started"
  /\ config = [recursion_limit |-> 0]
  /\ state = EmptyState("")
  /\ next_node = ""
  /\ steps = 0
  /\ llm_result = NoResult
  /\ final_state = EmptyState("")
  /\ execution_log = <<>>
  /\ runs = 0
  /\ error_msg = ""
  /\ compiles = 0
  /\ openai_api_key = llm_manager.api_key
  /\ executed = {}
  /\ passed_log = <<>>

\* ------------------------------------------------- builder page: Compile

CompileWorkflow_unvalidated ==
  /\ status # "running"
  /\ compiles < MaxCompiles
  /\ compiles' = compiles + 1
  /\ LET nodes == Workflows[workflow]
     IN IF Len(nodes) = 0
        THEN /\ error_msg' = "Add at least one node to compile"
             /\ UNCHANGED <<compiled_graph, recursion_limit>>
        ELSE /\ compiled_graph' = compile(nodes)
             /\ recursion_limit' = compute_recursion_limit(nodes)
             /\ error_msg' = ""
  /\ UNCHANGED <<workflow, llm_manager, status, config, state, next_node, steps,
                 llm_result, final_state, execution_log, runs, openai_api_key,
                 executed, passed_log>>
  /\ UNCHANGED callVars

CompileWorkflow_drifting ==
  /\ status # "running"
  /\ compiles < MaxCompiles
  /\ compiles' = compiles + 1
  /\ LET nodes == Workflows[workflow]
     IN IF Len(nodes) = 0
        THEN /\ error_msg' = "Add at least one node to compile"
             /\ UNCHANGED <<compiled_graph, recursion_limit>>
        ELSE IF validate_workflow_structure(nodes) # ""
        THEN /\ error_msg' = validate_workflow_structure(nodes)
             /\ UNCHANGED <<compiled_graph, recursion_limit>>
        ELSE /\ compiled_graph' = compile(nodes)
             /\ recursion_limit' = recursion_limit + compute_recursion_limit(nodes)
             /\ error_msg' = ""
  /\ UNCHANGED <<workflow, llm_manager, status, config, state, next_node, steps,
                 llm_result, final_state, execution_log, runs, openai_api_key,
                 executed, passed_log>>
  /\ UNCHANGED callVars

\* builder.py "Compile Workflow": a warning for a workflow without nodes, the
\* validation error for an invalid one; else the compiled graph and its
\* recursion limit are stored in the session.
CompileWorkflow ==
  /\ status # "running"
  /\ compiles < MaxCompiles
  /\ compiles' = compiles + 1
  /\ LET nodes == Workflows[workflow]
     IN IF Len(nodes) = 0
        THEN /\ error_msg' = "Add at least one node to compile"
             /\ UNCHANGED <<compiled_graph, recursion_limit>>
        ELSE IF validate_workflow_structure(nodes) # ""
        THEN /\ error_msg' = validate_workflow_structure(nodes)
             /\ UNCHANGED <<compiled_graph, recursion_limit>>
        ELSE /\ compiled_graph' = compile(nodes)
             /\ recursion_limit' = compute_recursion_limit(nodes)
             /\ error_msg' = ""
  /\ UNCHANGED <<workflow, llm_manager, status, config, state, next_node, steps,
                 llm_result, final_state, execution_log, runs, openai_api_key,
                 executed, passed_log>>
  /\ UNCHANGED callVars

\* ------------------------------------------------------ WorkflowExecutor

invoke_config_off_by_one(limit) == [recursion_limit |-> limit + 1]

\* execute: config={"recursion_limit": recursion_limit}
invoke_config(limit) == [recursion_limit |-> limit]

\* The lists a caller passes as execution_log: none or a new empty list (the
\* builder page), or the list that holds the lines of the session's earlier
\* runs.
PassedLogs == {<<>>, execution_log}

started_log_new_list(passed) == <<"started", "input">>

\* execute: a missing log becomes a new list; the started line and the
\* input-preview line are appended to it.
started_log(passed) == passed \o <<"started", "input">>

Execute_keeps_state ==
  /\ status # "running"
  /\ compiled_graph # NoGraph
  /\ runs < MaxRuns
  /\ \E initial_input \in Inputs :
       state' = [state EXCEPT !.input = initial_input]
  /\ \E passed \in PassedLogs :
       /\ passed_log' = passed
       /\ execution_log' = started_log(passed)
  /\ config' = invoke_config(recursion_limit)
  /\ next_node' = compiled_graph.entry
  /\ steps' = 0
  /\ status' = "running"
  /\ llm_result' = NoResult
  /\ final_state' = EmptyState("")
  /\ runs' = runs + 1
  /\ UNCHANGED <<workflow, llm_manager, compiled_graph, recursion_limit>>
  /\ UNCHANGED <<error_msg, compiles, openai_api_key>>
  /\ executed' = {}
  /\ op' = "none"
  /\ ret' = NoCall
  /\ UNCHANGED <<arg_content, arg_node, arg_result>>

\* execute up to the call of compiled_graph.invoke: the initial state, the
\* two opening log lines.  A summary taken of the previous run's final state
\* is not kept.
Execute ==
  /\ status # "running"
  /\ compiled_graph # NoGraph
  /\ runs < MaxRuns
  /\ \E initial_input \in Inputs :
       state' = EmptyState(initial_input)
  /\ \E passed \in PassedLogs :
       /\ passed_log' = passed
       /\ execution_log' = started_log(passed)
  /\ config' = invoke_config(recursion_limit)
  /\ next_node' = compiled_graph.entry
  /\ steps' = 0
  /\ status' = "running"
  /\ llm_result' = NoResult
  /\ final_state' = EmptyState("")
  /\ runs' = runs + 1
  /\ UNCHANGED <<workflow, llm_manager, compiled_graph, recursion_limit>>
  /\ UNCHANGED <<error_msg, compiles, openai_api_key>>
  /\ executed' = {}
  /\ op' = "none"
  /\ ret' = NoCall
  /\ UNCHANGED <<arg_content, arg_node, arg_result>>

\* Where the graph run stands: a node is due and the step budget allows it,
\* the terminal marker is reached, or a node is due and the budget is used up.
CanStep ==
  status = "running" /\ next_node # end_node_id /\ steps < config.recursion_limit
ReachedEnd == status = "running" /\ next_node = end_node_id
OutOfSteps ==
  status = "running" /\ next_node # end_node_id /\ steps >= config.recursion_limit

\* execute has returned.
Finished == status \in {"completed", "failed"}

\* One step of the graph run: the node's AgentNode.execute, then the node's
\* conditional edge (Router.route with the node's path_map).
GraphStep ==
  /\ CanStep
  /\ \E result \in StepOutcomes :
       LET entry == compiled_graph.table[next_node]
           used == IF Invokes(llm_manager) /\ result # PromptRaised
                   THEN result ELSE NoResult
           st == agent_execute(state, next_node, entry.possible_keys,
                               llm_manager, result)
       IN /\ state' = st
          /\ llm_result' = used
          /\ next_node' = route(st.last_response_content, entry.path_map)
  /\ steps' = steps + 1
  /\ UNCHANGED <<workflow, llm_manager, compiled_graph, recursion_limit, status,
                 config, final_state, execution_log, runs>>
  /\ UNCHANGED <<error_msg, compiles, openai_api_key>>
  /\ executed' = executed \cup {next_node}
  /\ UNCHANGED passed_log
  /\ UNCHANGED callVars

ExecuteCompleted_reports_failed ==
  /\ ReachedEnd
  /\ final_state' = state
  /\ execution_log' = Append(execution_log, "failed")
  /\ status' = "failed"
  /\ UNCHANGED <<workflow, llm_manager, compiled_graph, recursion_limit, config,
                 state, next_node, steps, llm_result, runs>>
  /\ UNCHANGED <<error_msg, compiles, openai_api_key>>
  /\ UNCHANGED <<executed, passed_log>>
  /\ UNCHANGED callVars

\* execute after invoke returned: the graph run reached the terminal marker.
ExecuteCompleted ==
  /\ ReachedEnd
  /\ final_state' = state
  /\ execution_log' = Append(execution_log, "completed")
  /\ status' = "completed"
  /\ UNCHANGED <<workflow, llm_manager, compiled_graph, recursion_limit, config,
                 state, next_node, steps, llm_result, runs>>
  /\ UNCHANGED <<error_msg, compiles, openai_api_key>>
  /\ UNCHANGED <<executed, passed_log>>
  /\ UNCHANGED callVars

\* The state the except branch builds from initial_state, whose
\* node_outputs dict is node_outputs by then.
error_state(input, node_outputs) ==
  [input |-> input,
   node_outputs |-> node_outputs,
   last_response_content |-> <<"ERROR:", Sp, "Workflow execution failed:">>,
   current_node_id |-> EmptyState(input).current_node_id]

ExecuteFailedRetry ==
  /\ OutOfSteps
  /\ state' = EmptyState(state.input)
  /\ next_node' = compiled_graph.entry
  /\ steps' = 0
  /\ UNCHANGED <<workflow, llm_manager, compiled_graph, recursion_limit, status,
                 config, llm_result, final_state, execution_log, runs>>
  /\ UNCHANGED <<error_msg, compiles, openai_api_key>>
  /\ UNCHANGED <<executed, passed_log>>
  /\ UNCHANGED callVars

\* execute's except branch: the graph run raised because the step budget is
\* used up and the terminal marker is not reached.  initial_state's
\* node_outputs dict went into the graph run: it is still empty if the node
\* steps build their own dicts, and holds their entries if they write into
\* the dict they are handed.
ExecuteFailed ==
  /\ OutOfSteps
  /\ \E node_outputs \in {EmptyState(state.input).node_outputs, state.node_outputs} :
       final_state' = error_state(state.input, node_outputs)
  /\ execution_log' = Append(execution_log, "failed")
  /\ status' = "failed"
  /\ UNCHANGED <<workflow, llm_manager, compiled_graph, recursion_limit, config,
                 state, next_node, steps, llm_result, runs>>
  /\ UNCHANGED <<error_msg, compiles, openai_api_key>>
  /\ UNCHANGED <<executed, passed_log>>
  /\ UNCHANGED callVars

\* "ERROR" in text: "ERROR:" is the one token that holds the string ERROR.
ContainsERROR(text) == \E i \in 1..Len(text) : text[i] = "ERROR:"

get_execution_summary_any_output(fs) ==
  [nodes_executed |-> Cardinality(DOMAIN fs.node_outputs),
   node_outputs |-> fs.node_outputs,
   final_output |-> fs.last_response_content,
   current_node |-> fs.current_node_id,
   has_error |-> \/ ContainsERROR(fs.last_response_content)
                 \/ \E n \in DOMAIN fs.node_outputs :
                       ContainsERROR(fs.node_outputs[n])]

\* WorkflowExecutor.get_execution_summary
get_execution_summary(fs) ==
  [nodes_executed |-> Cardinality(DOMAIN fs.node_outputs),
   node_outputs |-> fs.node_outputs,
   final_output |-> fs.last_response_content,
   current_node |-> fs.current_node_id,
   has_error |-> ContainsERROR(fs.last_response_content)]

\* get_execution_summary called on the state execute returned.
GetExecutionSummary ==
  /\ Finished
  /\ op' = "get_execution_summary"
  /\ ret' = get_execution_summary(final_state)
  /\ UNCHANGED <<arg_content, arg_node, arg_result>>
  /\ UNCHANGED runVars

\* ------------------------------------------------------- loading workflows

\* workflows.py "Load": storage.load returned a workflow; the session's
\* compiled_graph and recursion_limit are deleted, the execution log is
\* emptied and the workflow becomes the current one.
LoadSavedWorkflow ==
  /\ status # "running"
  /\ \E loaded \in WorkflowIds : workflow' = loaded
  /\ compiled_graph' = NoGraph
  /\ recursion_limit' = 0
  /\ execution_log' = <<>>
  /\ op' = "load_saved"
  /\ ret' = NoCall
  /\ UNCHANGED <<llm_manager, status, config, state, next_node, steps, llm_result,
                 final_state, runs, error_msg, compiles, openai_api_key,
                 executed, passed_log>>
  /\ UNCHANGED <<arg_content, arg_node, arg_result>>

\* templates.py "Load Template": the template's copy becomes the current
\* workflow after the same deletions.
LoadTemplate ==
  /\ status # "running"
  /\ \E loaded \in WorkflowIds : workflow' = loaded
  /\ compiled_graph' = NoGraph
  /\ recursion_limit' = 0
  /\ execution_log' = <<>>
  /\ op' = "load_template"
  /\ ret' = NoCall
  /\ UNCHANGED <<llm_manager, status, config, state, next_node, steps, llm_result,
                 final_state, runs, error_msg, compiles, openai_api_key,
                 executed, passed_log>>
  /\ UNCHANGED <<arg_content, arg_node, arg_result>>

\* builder.py "Load": the loaded workflow becomes the current one and the
\* execution log is emptied; nothing else of the session is written.
LoadInBuilder ==
  /\ status # "running"
  /\ \E loaded \in WorkflowIds : workflow' = loaded
  /\ execution_log' = <<>>
  /\ op' = "load_builder"
  /\ ret' = NoCall
  /\ UNCHANGED <<compiled_graph, recursion_limit>>
  /\ UNCHANGED <<llm_manager, status, config, state, next_node, steps, llm_result,
                 final_state, runs, error_msg, compiles, openai_api_key,
                 executed, passed_log>>
  /\ UNCHANGED <<arg_content, arg_node, arg_result>>

Next ==
  \/ CompileWorkflow \/ Execute \/ GraphStep \/ ExecuteCompleted \/ ExecuteFailed
  \/ GetExecutionSummary

Init ==
  /\ RunInit
  /\ op = "none" /\ arg_content = <<>> /\ arg_node = "A" /\ arg_result = NoResult
  /\ ret = NoCall

Spec == Init /\ [][Next]_vars

\* The graph run is a loop of one thread: a step that can be taken is taken,
\* each model invocation returning or raising.  GraphStepFair is
\* WF_vars(GraphStep) with ENABLED <<GraphStep>>_vars written as its guard.
GraphStepFair == []<>(~CanStep) \/ []<><<GraphStep>>_vars
FairSpec ==
  Spec /\ GraphStepFair /\ WF_vars(ExecuteCompleted) /\ WF_vars(ExecuteFailed)

\* ------------------------------------------- direct calls of the functions

\* Content strings: every token string up to MaxLen, a non-str value, the
\* model replies and some longer texts.
BoundedStrings == UNION {[1..n -> Alphabet] : n \in 0..MaxLen}
HelloDefaultTight == <<"Hello", Sp, routing_key_marker, "__DEFAULT__">>
DoneYesWide == <<"Done", Sp, Sp, routing_key_marker, Sp, "yes", Sp>>
TwoMarkers == <<"Hello", Sp, routing_key_marker, Sp, "yes", Sp,
                routing_key_marker, Sp, "bogus">>
Contents ==
  BoundedStrings \cup ModelContents
    \cup {NonStr, HelloDefaultTight, DoneYesWide, TwoMarkers}

\* Node configurations the functions are called for: the possible keys of
\* AgentNode and the path_map handed to Router.route.
NodeConfigs ==
  [none |-> [possible_keys |-> {},
             path_map |-> [k \in {default_routing_key} |-> end_node_id]],
   yesno |-> [possible_keys |-> {<<"yes">>, <<"no">>},
              path_map |-> [k \in {<<"yes">>, <<"no">>, default_routing_key} |->
                              IF k = <<"yes">> THEN "A"
                              ELSE IF k = <<"no">> THEN end_node_id ELSE "B"]],
   nodefault |-> [possible_keys |-> {<<"yes">>},
                  path_map |-> [k \in {<<"yes">>} |-> "A"]],
   withdefault |-> [possible_keys |-> {<<"yes">>, default_routing_key},
                    path_map |-> [k \in {<<"yes">>, default_routing_key} |->
                                    IF k = <<"yes">> THEN "A" ELSE "B"]]]

CallsInit ==
  /\ workflow = "A"
  /\ llm_manager = ManagerCleared
  /\ compiled_graph = NoGraph
  /\ recursion_limit = 0
  /\ status = "not_started"
  /\ config = [recursion_limit |-> 0]
  /\ state = EmptyState("")
  /\ next_node = ""
  /\ steps = 0
  /\ llm_result = NoResult
  /\ final_state = EmptyState("")
  /\ execution_log = <<>>
  /\ runs = 0
  /\ error_msg = ""
  /\ compiles = 0
  /\ openai_api_key = llm_manager.api_key
  /\ executed = {}
  /\ passed_log = <<>>
  /\ op = "none"
  /\ arg_content \in Contents
  /\ arg_node \in DOMAIN NodeConfigs
  /\ arg_result = NoResult
  /\ ret = NoCall

CallExtractRoutingKey ==
  /\ op = "none"
  /\ op' = "extract_routing_key"
  /\ ret' = [str |-> extract_routing_key(arg_content), target |-> ""]
  /\ UNCHANGED <<arg_content, arg_node, arg_result>>
  /\ UNCHANGED runVars

CallCleanContent ==
  /\ op = "none"
  /\ op' = "clean_content"
  /\ ret' = [str |-> clean_content(arg_content), target |-> ""]
  /\ UNCHANGED <<arg_content, arg_node, arg_result>>
  /\ UNCHANGED runVars

\* route on a state whose last_response_content is arg_content.
CallRoute ==
  /\ op = "none"
  /\ op' = "route"
  /\ ret' = [str |-> <<>>,
             target |-> route(arg_content, NodeConfigs[arg_node].path_map)]
  /\ UNCHANGED <<arg_content, arg_node, arg_result>>
  /\ UNCHANGED runVars

CallEnsureRoutingKey ==
  /\ op = "none"
  /\ op' = "_ensure_routing_key"
  /\ ret' = [str |-> ensure_routing_key(arg_content,
                                        NodeConfigs[arg_node].possible_keys),
             target |-> ""]
  /\ UNCHANGED <<arg_content, arg_node, arg_result>>
  /\ UNCHANGED runVars

\* The results whose content carries the text c.
ResultsWith(c) ==
  {StrResult(c), ListTextResult(c), ListStrResult(c), ListNoTextResult,
   ListEmptyResult, OtherResult, NoContentResult}

\* _extract_content on a model result carrying the text arg_content.
CallExtractContent ==
  /\ op = "none"
  /\ isinstance_str(arg_content)
  /\ \E result \in ResultsWith(arg_content) :
       /\ arg_result' = result
       /\ ret' = [str |-> extract_content(result), target |-> ""]
  /\ op' = "_extract_content"
  /\ UNCHANGED <<arg_content, arg_node>>
  /\ UNCHANGED runVars

CallsNext ==
  \/ CallExtractRoutingKey \/ CallCleanContent \/ CallRoute \/ CallEnsureRoutingKey
  \/ CallExtractContent

CallsSpec == CallsInit /\ [][CallsNext]_vars

\* The handlers that write the session's current workflow and its compiled
\* graph: Compile, and Load on each of the three pages.
PagesNext ==
  \/ CompileWorkflow \/ LoadSavedWorkflow \/ LoadTemplate \/ LoadInBuilder

\* The session as the builder page first sets it up: an untitled workflow
\* without nodes and nothing compiled.
PagesInit == Init /\ workflow = "E"

PagesSpec == PagesInit /\ [][PagesNext]_vars

\* ------------------------------------------------------------ LLMManager

\* Credentials the settings can hold; "" is no credential.
ApiKeys == {"", "k1", "k2", "k3"}

\* How the construction inside initialize goes: both steps succeed, ChatOpenAI
\* raises, or bind_tools raises.
InitOutcomes == {"ok", "raise_model", "raise_bind_tools"}

initialize_partial_cleanup(mgr, key, outcome) ==
  IF key = "" THEN mgr
  ELSE IF outcome = "ok" THEN ManagerBuilt(key)
  ELSE [mgr EXCEPT !.tools = TRUE, !.llm_with_tools = FALSE]

\* LLMManager.initialize: the manager afterwards.
initialize(mgr, key, outcome) ==
  IF key = "" THEN mgr
  ELSE IF outcome = "ok" THEN ManagerBuilt(key)
  ELSE [ManagerCleared EXCEPT !.tools = TRUE]

\* LLMManager.initialize: its return value.
initialize_returns(mgr, key, outcome) == key # "" /\ outcome = "ok"

\* reinitialize_if_needed: current_key != settings.openai_api_key.  differs
\* says whether a model's stored key compares unequal to the str it was
\* built from (the attribute's type is the model class's own).
KeyChanged(mgr, key, differs) ==
  IF mgr.llm THEN mgr.api_key # key \/ differs ELSE key # ""

\* LLMManager.reinitialize_if_needed: the manager afterwards.
reinitialize_if_needed(mgr, key, outcome, differs) ==
  IF KeyChanged(mgr, key, differs) THEN initialize(mgr, key, outcome)
  ELSE IF ~mgr.initialized /\ key # "" THEN initialize(mgr, key, outcome)
  ELSE IF mgr.initialized /\ key = "" THEN Dropped(mgr)
  ELSE mgr

\* LLMManager.reinitialize_if_needed: its return value.
reinitialize_if_needed_returns(mgr, key, outcome, differs) ==
  IF KeyChanged(mgr, key, differs) THEN initialize_returns(mgr, key, outcome)
  ELSE IF ~mgr.initialized /\ key # "" THEN initialize_returns(mgr, key, outcome)
  ELSE IF mgr.initialized /\ key = "" THEN FALSE
  ELSE mgr.initialized

\* The llm / llm_with_tools properties: the manager after the read.
get_capability(mgr, key, outcome, differs) ==
  IF ~mgr.initialized THEN reinitialize_if_needed(mgr, key, outcome, differs)
  ELSE mgr

\* What a call on the manager returned: a bool (value), or a capability
\* (value: present, api_key: the credential it was built with).
Returned(value, key) == [value |-> value, api_key |-> key]

ManagerInit ==
  /\ workflow = "A"
  /\ llm_manager = ManagerCleared
  /\ compiled_graph = NoGraph
  /\ recursion_limit = 0
  /\ status = "not_started"
  /\ config = [recursion_limit |-> 0]
  /\ state = EmptyState("")
  /\ next_node = ""
  /\ steps = 0
  /\ llm_result = NoResult
  /\ final_state = EmptyState("")
  /\ execution_log = <<>>
  /\ runs = 0
  /\ error_msg = ""
  /\ compiles = 0
  /\ openai_api_key \in ApiKeys
  /\ executed = {}
  /\ passed_log = <<>>
  /\ op = "none"
  /\ arg_content = <<>>
  /\ arg_node = "none"
  /\ arg_result = NoResult
  /\ ret = NoCall

\* Everything but the manager, the credential and the call record.
sessionVars ==
  <<workflow, compiled_graph, recursion_limit, status, config, state, next_node,
    steps, llm_result, final_state, execution_log, runs, error_msg, compiles,
    executed, passed_log,
    arg_content, arg_node, arg_result>>

\* The configured credential changes.
SetCredential ==
  /\ \E key \in ApiKeys \ {openai_api_key} : openai_api_key' = key
  /\ op' = "set_credential"
  /\ ret' = NoCall
  /\ UNCHANGED llm_manager
  /\ UNCHANGED sessionVars

CallInitialize ==
  /\ \E outcome \in InitOutcomes :
       /\ llm_manager' = initialize(llm_manager, openai_api_key, outcome)
       /\ ret' = Returned(initialize_returns(llm_manager, openai_api_key, outcome), "")
  /\ op' = "initialize"
  /\ UNCHANGED openai_api_key
  /\ UNCHANGED sessionVars

CallReinitializeIfNeeded ==
  /\ \E outcome \in InitOutcomes, differs \in BOOLEAN :
       /\ llm_manager' =
            reinitialize_if_needed(llm_manager, openai_api_key, outcome, differs)
       /\ ret' = Returned(reinitialize_if_needed_returns(
                            llm_manager, openai_api_key, outcome, differs), "")
  /\ op' = "reinitialize_if_needed"
  /\ UNCHANGED openai_api_key
  /\ UNCHANGED sessionVars

CallClear ==
  /\ llm_manager' = Dropped(llm_manager)
  /\ op' = "clear"
  /\ ret' = NoCall
  /\ UNCHANGED openai_api_key
  /\ UNCHANGED sessionVars

\* manager.llm
GetLlm ==
  /\ \E outcome \in InitOutcomes, differs \in BOOLEAN :
       llm_manager' = get_capability(llm_manager, openai_api_key, outcome, differs)
  /\ ret' = Returned(llm_manager'.llm, llm_manager'.api_key)
  /\ op' = "llm"
  /\ UNCHANGED openai_api_key
  /\ UNCHANGED sessionVars

\* manager.llm_with_tools
GetLlmWithTools ==
  /\ \E outcome \in InitOutcomes, differs \in BOOLEAN :
       llm_manager' = get_capability(llm_manager, openai_api_key, outcome, differs)
  /\ ret' = Returned(llm_manager'.llm_with_tools, llm_manager'.api_key)
  /\ op' = "llm_with_tools"
  /\ UNCHANGED openai_api_key
  /\ UNCHANGED sessionVars

\* manager.get_tools()
CallGetTools ==
  /\ op' = "get_tools"
  /\ ret' = Returned(llm_manager.tools, "")
  /\ UNCHANGED <<llm_manager, openai_api_key>>
  /\ UNCHANGED sessionVars

ManagerNext ==
  \/ SetCredential \/ CallInitialize \/ CallReinitializeIfNeeded \/ CallClear
  \/ GetLlm \/ GetLlmWithTools \/ CallGetTools

ManagerSpec == ManagerInit /\ [][ManagerNext]_vars

\* ---------------------------------------------------------------- claims


\* C1: the number of node steps executed in one run of execute is at most
\* the recursion limit execute was called with.
C1_StepsWithinRecursionLimit == steps <= recursion_limit
C1_Witness ==
  status = "running" /\ steps = recursion_limit /\ steps > 0
  /\ next_node # end_node_id

\* C2: every run terminates: a running execute eventually returns, completed
\* or failed, also for a workflow whose routing forms a cycle.
C2_RunTerminates == (status = "running") ~> Finished
C2_Witness ==
  workflow = "L" /\ status = "failed" /\ steps = recursion_limit
  /\ state.current_node_id = "L"

\* C3 (scenario D): in the two-node cycle, as long as the model emits x at A
\* and y at B the recursion limit is 16, the run goes on to the other node
\* while fewer than 16 steps are done, and after the 16th step only the
\* failing return is left; such a run never completes.
EmitsScenarioD ==
  \/ state.current_node_id = "A" /\ llm_result = StrResult(DoneX)
  \/ state.current_node_id = "B" /\ llm_result = StrResult(DoneY)
C3_ScenarioD ==
  (workflow = "D" /\ steps >= 1 /\ EmitsScenarioD) =>
    /\ recursion_limit = 16
    /\ steps <= 16
    /\ status \in {"running", "failed"}
    /\ next_node = (IF state.current_node_id = "A" THEN "B" ELSE "A")
    /\ (steps < 16 => CanStep)
    /\ (status = "failed" => steps = 16)
    /\ (steps = 16 /\ status = "running" => OutOfSteps)
C3_Witness ==
  workflow = "D" /\ EmitsScenarioD /\ status = "failed" /\ steps = 16

\* C4 (scenario A): one node n1 with default target END and the reply
\* "Hello ROUTING_KEY: __DEFAULT__": exactly one step, the reply stored
\* unchanged under n1, current_node_id n1, the run completes within budget.
C4_ScenarioA ==
  (workflow = "A" /\ steps >= 1 /\ llm_result = StrResult(HelloDefault)) =>
    /\ steps = 1
    /\ steps < recursion_limit
    /\ state.node_outputs = [n \in {"n1"} |-> HelloDefault]
    /\ state.current_node_id = "n1"
    /\ next_node = end_node_id
    /\ status \in {"running", "completed"}
    /\ (status = "running" => ReachedEnd)
    /\ (status = "completed" => final_state = state)
C4_Witness ==
  workflow = "A" /\ status = "completed" /\ steps = 1
  /\ llm_result = StrResult(HelloDefault)
  /\ final_state.node_outputs["n1"] = HelloDefault

\* The claims' own wording of "content ends with marker, optional
\* whitespace, a bare word, optional whitespace": marker at i, word a..b.
EndsWithMarkerKey(x, i, a, b) ==
  /\ x[i] = routing_key_marker
  /\ i < a /\ a <= b /\ b <= Len(x)
  /\ \A j \in (i + 1)..(a - 1) : IsSpace(x[j])
  /\ \A j \in a..b : IsWord(x[j])
  /\ \A j \in (b + 1)..Len(x) : IsSpace(x[j])
HasTrailingMarkerKey(x) ==
  /\ isinstance_str(x)
  /\ \E i, a, b \in 1..Len(x) : EndsWithMarkerKey(x, i, a, b)
TrailingKey(x) ==
  IF HasTrailingMarkerKey(x)
  THEN LET p == CHOOSE p \in (1..Len(x)) \X (1..Len(x)) \X (1..Len(x)) :
                  EndsWithMarkerKey(x, p[1], p[2], p[3])
       IN SubSeq(x, p[2], p[3])
  ELSE default_routing_key
\* x with leading and trailing whitespace removed, stated as a relation.
IsStripped(x, y) ==
  \E a \in 1..(Len(x) + 1), b \in 0..Len(x) :
    /\ y = SubSeq(x, a, b)
    /\ \A j \in 1..(a - 1) : IsSpace(x[j])
    /\ \A j \in (b + 1)..Len(x) : IsSpace(x[j])
    /\ (y = <<>> \/ (~IsSpace(y[1]) /\ ~IsSpace(y[Len(y)])))
PathMap == NodeConfigs[arg_node].path_map
PossibleKeys == NodeConfigs[arg_node].possible_keys
PathMapTargets == {PathMap[k] : k \in DOMAIN PathMap}
DefaultTarget == IF default_routing_key \in DOMAIN PathMap
                 THEN PathMap[default_routing_key] ELSE end_node_id

\* C5 as claimed: route returns a key of path_map or the terminal marker.
C5_RouteReturnsKeyOrEnd ==
  (op = "route" /\ isinstance_str(arg_content)) =>
    \/ ret.target = end_node_id
    \/ \E k \in DOMAIN PathMap : k = <<ret.target>>
\* C5 as amended: route returns a value (target) of path_map or the
\* terminal marker, never any other string.
C5_RouteReturnsTargetOrEnd ==
  op = "route" => ret.target \in PathMapTargets \cup {end_node_id}
C5_Witness ==
  op = "route" /\ arg_node = "yesno" /\ TrailingKey(arg_content) = <<"yes">>
  /\ ret.target = "A"

\* C6: route resolves empty content to the default target, a key found in
\* path_map to its target, a key not found to the default target; the
\* default target is path_map[default_key] or else the terminal marker.
C6_RouteResolution ==
  op = "route" =>
    ret.target =
      IF arg_content = <<>> THEN DefaultTarget
      ELSE IF TrailingKey(arg_content) \in DOMAIN PathMap
           THEN PathMap[TrailingKey(arg_content)]
           ELSE DefaultTarget
C6_Witness ==
  op = "route" /\ arg_node = "yesno" /\ HasTrailingMarkerKey(arg_content)
  /\ TrailingKey(arg_content) = <<"bogus">> /\ ret.target = "B"

\* C7: for every content x, clean_content(x) has no trailing marker-plus-key
\* and extract_routing_key of it is the default key, also when the marker
\* followed by a key occurs more than once.
C7_CleanRemovesEveryKey ==
  (op = "clean_content" /\ isinstance_str(arg_content)) =>
    /\ ~HasTrailingMarkerKey(ret.str)
    /\ extract_routing_key(ret.str) = default_routing_key

\* C8: extract_routing_key returns the bare word w exactly when content ends
\* with marker, optional whitespace, w, optional whitespace, and the default
\* key in every other case (non-str content included).
C8_ExtractAnchoredAtEnd ==
  op = "extract_routing_key" => ret.str = TrailingKey(arg_content)
C8_Witness ==
  op = "extract_routing_key" /\ ret.str = <<"yes">>
  /\ Len(arg_content) = 4 /\ arg_content[1] = "." /\ arg_content[4] = Sp

\* C9 as claimed: content that does not end with marker-plus-key is returned
\* untouched, leading and trailing whitespace included.
C9_CleanLeavesUntouched ==
  (op = "clean_content" /\ isinstance_str(arg_content)
     /\ ~HasTrailingMarkerKey(arg_content)) => ret.str = arg_content
\* C9 as amended: such content is returned with its leading and trailing
\* whitespace removed and otherwise untouched; it is returned as it is when
\* it neither starts nor ends with whitespace.
C9_CleanOnlyStrips ==
  (op = "clean_content" /\ isinstance_str(arg_content)
     /\ ~HasTrailingMarkerKey(arg_content)) =>
    /\ IsStripped(arg_content, ret.str)
    /\ (arg_content # <<>> /\ ~IsSpace(arg_content[1])
          /\ ~IsSpace(arg_content[Len(arg_content)]) => ret.str = arg_content)
C9_Witness ==
  op = "clean_content" /\ Len(arg_content) = 4
  /\ arg_content[1] = routing_key_marker /\ arg_content[3] = "yes"
  /\ arg_content[4] = "." /\ ret.str = arg_content

\* C10: enforcement returns content ending with marker+key unchanged when the
\* key is in possible_keys or is the default key; replaces an illegal
\* marker+key by marker+default key; appends marker+default key to content
\* with no trailing marker+key.
C10_EnsureRoutingKeyContract ==
  (op = "_ensure_routing_key" /\ isinstance_str(arg_content)) =>
    ret.str =
      IF HasTrailingMarkerKey(arg_content)
      THEN IF TrailingKey(arg_content) \in PossibleKeys \cup {default_routing_key}
           THEN arg_content
           ELSE clean_content(arg_content) \o MarkerDefaultSuffix
      ELSE arg_content \o MarkerDefaultSuffix

\* ------------------------------------------------- claims on the node step

\* The node whose step produced state, and its compiled routing table.
StepDone == status = "running" /\ steps > 0
LastPathMap == compiled_graph.table[state.current_node_id].path_map

\* C11: after every node step (succeeded or ended in the error path) the
\* routing key carried by last_response_content is a key of that node's
\* path_map, so that route resolves it without its key-not-found fallback.
C11_KeyFoundInPathMap ==
  StepDone =>
    /\ state.last_response_content # <<>>
    /\ extract_routing_key(state.last_response_content) \in DOMAIN LastPathMap

\* A node step is being taken on next_node.
StepTaken == CanStep /\ steps' = steps + 1

\* C12: a node step on node n sets node_outputs[n], last_response_content
\* (the same content) and current_node_id (n) and nothing else of the state:
\* input is the run's initial input throughout the run, and the
\* node_outputs entries of the other nodes are left as they were.
C12_StepFrame ==
  [][/\ (status = "running" => state'.input = state.input)
     /\ StepTaken =>
          /\ state'.current_node_id = next_node
          /\ DOMAIN state'.node_outputs = DOMAIN state.node_outputs \cup {next_node}
          /\ state'.node_outputs[next_node] = state'.last_response_content
          /\ \A n \in DOMAIN state.node_outputs \ {next_node} :
               state'.node_outputs[n] = state.node_outputs[n]
          /\ DOMAIN state' = DOMAIN state]_vars
C12_Witness ==
  /\ workflow = "D" /\ status = "running" /\ steps = 3 /\ state.input = "go"
  /\ state.current_node_id = "A"
  /\ DOMAIN state.node_outputs = {"A", "B"}
  /\ state.node_outputs["B"] = DoneY
  /\ state.node_outputs["A"] = state.last_response_content

\* "ERROR: <message> <marker> error"
IsNodeErrorText(c) ==
  /\ Len(c) >= 5
  /\ c[1] = "ERROR:" /\ c[2] = Sp
  /\ SubSeq(c, Len(c) - 2, Len(c)) = <<routing_key_marker, Sp, "error">>

\* The step being taken reached the try block and an exception was raised in
\* it: by prompt assembly (no invocation recorded), by the invocation, or by
\* the content extraction.
StepRaised ==
  /\ StepTaken
  /\ llm_manager.initialized /\ llm_manager.llm /\ llm_manager.llm_with_tools
  /\ llm_result' \in {NoResult, Raised, ExtractRaised}

\* C13: an exception raised during prompt assembly, model invocation or
\* content extraction of a node step does not escape the step: the run goes
\* on, and the step's state has, as last_response_content and as the node's
\* node_outputs entry, one error text that starts with "ERROR: " and ends
\* with the marker followed by the key error.
C13_StepCatchesExceptions ==
  [][StepRaised =>
       /\ status' = "running"
       /\ steps' = steps + 1
       /\ IsNodeErrorText(state'.last_response_content)
       /\ state'.node_outputs[next_node] = state'.last_response_content
       /\ state'.current_node_id = next_node]_vars
C13_Witness ==
  /\ StepDone /\ llm_result = ExtractRaised
  /\ IsNodeErrorText(state.last_response_content)
  /\ state.node_outputs[state.current_node_id] = state.last_response_content

\* The step being taken ends in _create_error_state: no invocation was made
\* (preconditions failed or prompt assembly raised), the invocation or the
\* extraction raised, or the extracted content is empty.
ErrorPathTaken ==
  /\ StepTaken
  /\ \/ llm_result'.kind \in {"none", "raise", "raise_extract"}
     \/ llm_result'.kind = "str" /\ Strip(llm_result'.content) = <<>>

\* Where the workflow sends the key error from node id: the node's
\* conditional target for error, or else its default target.
ErrorTarget(id) ==
  LET node == NodeById(Workflows[workflow], id)
  IN IF <<"error">> \in DOMAIN node.conditional_targets
     THEN node.conditional_targets[<<"error">>]
     ELSE node.default_target

\* C14: a node step that ends in the node's error path does not abort the
\* run: the run stays running, the node due next is the target of the key
\* error in that node's path_map, or the node's default target when error
\* is no key of it, and that node is executed next while the budget lasts.
C14_ErrorStepRoutesOn ==
  [][ErrorPathTaken =>
       /\ status' = "running"
       /\ final_state' = final_state
       /\ next_node' = ErrorTarget(next_node)
       /\ (next_node' # end_node_id /\ steps' < config.recursion_limit => CanStep')
       /\ (next_node' = end_node_id => ReachedEnd')]_vars
C14_Witness ==
  /\ workflow = "C" /\ status = "running" /\ steps = 2
  /\ IsNodeErrorText(state.node_outputs["P"])
  /\ state.current_node_id = "Q"
  /\ llm_result = StrResult(HelloDefault)

\* "ERROR: <error_msg> <marker> error"
NodeErrorText(msg) ==
  <<"ERROR:", Sp, msg, Sp, routing_key_marker, Sp, "error">>

\* C15: a node step that starts with the model manager not initialized, or
\* with no tool-bound model, yields the error state at once ("LLM not
\* initialized", "LLM with tools not available") and invokes no model.
C15_NoInvocationWithoutModel ==
  [][StepTaken /\ (~(llm_manager.initialized /\ llm_manager.llm)
                   \/ ~llm_manager.llm_with_tools) =>
       /\ llm_result' = NoResult
       /\ llm_manager' = llm_manager
       /\ state'.last_response_content =
            (IF ~(llm_manager.initialized /\ llm_manager.llm)
             THEN NodeErrorText("LLM not initialized")
             ELSE NodeErrorText("LLM with tools not available"))
       /\ state'.node_outputs[next_node] = state'.last_response_content]_vars
C15_Witness ==
  /\ StepDone /\ llm_manager = ManagerNoTools /\ llm_result = NoResult
  /\ state.last_response_content = NodeErrorText("LLM with tools not available")

\* ------------------------------------------------------ claims on execute

\* C16: a run started while the model capability is unavailable (manager
\* not initialized, or no tool-bound model) fails closed: it executes no
\* node step and does not end as a completed run.
C16_FailsClosedBeforeAnyNode ==
  ~(llm_manager.initialized /\ llm_manager.llm /\ llm_manager.llm_with_tools) =>
    steps = 0 /\ status # "completed"

\* C17: when an exception escapes the graph run, execute returns a state
\* whose last_response_content is "ERROR: Workflow execution failed:
\* <message>" and whose node_outputs and current_node_id are those the node
\* steps had accumulated before the failure.
C17_FailureKeepsAccumulated ==
  status = "failed" =>
    /\ final_state.last_response_content =
         <<"ERROR:", Sp, "Workflow execution failed:">>
    /\ final_state.node_outputs = state.node_outputs
    /\ final_state.current_node_id = state.current_node_id

\* C18: when the step budget runs out, execute returns the last reached
\* state: node_outputs, last_response_content and current_node_id as the
\* last executed node step left them.
C18_ExhaustionReturnsLastState ==
  (Finished /\ next_node # end_node_id /\ steps >= config.recursion_limit) =>
    /\ final_state.node_outputs = state.node_outputs
    /\ final_state.last_response_content = state.last_response_content
    /\ final_state.current_node_id = state.current_node_id
    /\ final_state.input = state.input

\* C19: a run ends completed or failed, never both: it becomes completed
\* exactly when routing has reached the terminal marker within the step
\* budget, failed exactly when the graph run raised (the step budget used
\* up); the log's last line says which; a completed or failed run stays so,
\* the status changing again only with a new call of execute.
C19_RunStatus ==
  [][/\ status' \in {"not_started", "running", "completed", "failed"}
     /\ (status' = "completed" /\ status # "completed" => ReachedEnd)
     /\ (status' = "failed" /\ status # "failed" => OutOfSteps)
     /\ (ReachedEnd /\ status' # status => status' = "completed")
     /\ (OutOfSteps /\ status' # status => status' = "failed")
     /\ (CanStep => status' = "running")
     /\ (Finished /\ status' # status => status' = "running" /\ runs' = runs + 1)
     /\ (Finished /\ runs' = runs =>
           /\ final_state' = final_state
           /\ execution_log' = execution_log)
     /\ (Finished' => execution_log'[Len(execution_log')] = status')]_vars
C19_Witness ==
  /\ workflow = "C" /\ runs = 2 /\ status = "completed" /\ steps >= 2
  /\ execution_log = <<"started", "input", "completed">>

\* ------------------------------------------------------ claims on Compile

\* The three structural defects of the current workflow.
NoNodes == Len(Workflows[workflow]) = 0
SharedId ==
  \E i, j \in 1..Len(Workflows[workflow]) :
     i # j /\ Workflows[workflow][i].id = Workflows[workflow][j].id
DanglingTarget ==
  \E i \in 1..Len(Workflows[workflow]) :
     LET node == Workflows[workflow][i]
     IN \/ node.default_target # end_node_id
           /\ \A j \in 1..Len(Workflows[workflow]) :
                 Workflows[workflow][j].id # node.default_target
        \/ \E k \in DOMAIN node.conditional_targets :
              /\ node.conditional_targets[k] # end_node_id
              /\ \A j \in 1..Len(Workflows[workflow]) :
                    Workflows[workflow][j].id # node.conditional_targets[k]

\* A click on Compile that changed the session (status and runs as before,
\* no run in progress).
Compiled == status # "running" /\ status' = status /\ runs' = runs

\* C20: compiling a workflow with no node, with two nodes sharing an id, or
\* with a default or conditional target that is neither a node id nor the
\* terminal marker reports an error message and stores no compiled graph; a
\* compiled graph is stored only for a workflow free of all three defects.
C20_CompileRejectsInvalid ==
  [][Compiled =>
       /\ (NoNodes \/ SharedId \/ DanglingTarget =>
             /\ error_msg' # ""
             /\ compiled_graph' = compiled_graph
             /\ recursion_limit' = recursion_limit)
       /\ (compiled_graph' # compiled_graph =>
             /\ ~NoNodes /\ ~SharedId /\ ~DanglingTarget
             /\ compiled_graph' # NoGraph
             /\ error_msg' = "")]_vars
C20_Witness ==
  /\ workflow = "G" /\ DanglingTarget /\ ~NoNodes /\ ~SharedId
  /\ error_msg = "unknown target"
  /\ compiled_graph = NoGraph /\ recursion_limit = 0

\* --------------------------------------------------- claims on compilation

\* C21: once a workflow is compiled, the stored recursion_limit is
\* recursion_base + recursion_multiplier * node_count, that is
\* 10 + 3 * node_count under the default settings.
C21_RecursionLimitFormula ==
  compiled_graph # NoGraph =>
    /\ recursion_limit = 10 + 3 * Len(Workflows[workflow])
    /\ recursion_limit =
         default_recursion_base
           + default_recursion_multiplier * Cardinality(DOMAIN compiled_graph.table)
C21_Witness ==
  workflow = "C" /\ compiled_graph # NoGraph /\ recursion_limit = 16
  /\ Cardinality(DOMAIN compiled_graph.table) = 2

C23_SummaryIsReadOnlyView ==
  [][(op' = "get_execution_summary" /\ (op' # op \/ ret' # ret)) =>
       /\ final_state' = final_state
       /\ ret'.has_error =
            ("ERROR:" \in {final_state.last_response_content[i] :
                             i \in DOMAIN final_state.last_response_content})
       /\ ret'.nodes_executed = Cardinality(DOMAIN final_state.node_outputs)
       /\ ret'.node_outputs = final_state.node_outputs
       /\ ret'.final_output = final_state.last_response_content
       /\ ret'.current_node = final_state.current_node_id]_vars
C23_Witness ==
  /\ workflow = "D" /\ status = "completed" /\ steps = 3
  /\ op = "get_execution_summary"
  /\ ret.nodes_executed = 2 /\ ret.node_outputs = final_state.node_outputs
  /\ ret.has_error /\ ret.final_output = final_state.node_outputs["A"]
  /\ ~ContainsERROR(final_state.node_outputs["B"])
  /\ ret.current_node = "A"

\* --------------------------------------------------- claims on LLMManager

\* C24: a capability obtained from the manager (llm or llm_with_tools) is
\* one built with the credential the settings hold at that moment, whatever
\* credential changes, initialize, reinitialize_if_needed and clear calls came
\* before; never one built with an earlier credential.
C24_CapabilityHasCurrentCredential ==
  (op \in {"llm", "llm_with_tools"} /\ ret.value) => ret.api_key = openai_api_key

\* ------------------------------------------- claims on content extraction

\* C25: _extract_content returns a plain string content as it is and the
\* text of a list whose first item is a mapping with a text field; content
\* of any other shape (a list whose first item is a mapping without a text
\* field and an empty list included) comes back stringified, not dropped.
C25_ExtractContentShapes ==
  op = "_extract_content" =>
    IF arg_result.kind \in {"str", "list_dict_text"}
    THEN ret.str = arg_content
    ELSE IF arg_result.kind \in {"list_dict_no_text", "list_empty", "other"}
    THEN ret.str = str(arg_result.content) /\ ret.str # <<>>
    ELSE TRUE

\* The step being taken invoked the model, and the content extracted from
\* its result is empty or whitespace only.
StepGotEmptyContent ==
  /\ StepTaken
  /\ llm_result'.kind \notin {"none", "raise", "raise_prompt", "raise_extract"}
  /\ \A i \in 1..Len(extract_content(llm_result')) :
       extract_content(llm_result')[i] \in SpaceTokens

\* C26: when the content extracted from the model result is empty or only
\* whitespace, the node step takes the error path: what is stored for the
\* node is the error text with the key error, never an empty or a
\* default-keyed output.
C26_EmptyContentIsError ==
  [][StepGotEmptyContent =>
       /\ IsNodeErrorText(state'.node_outputs[next_node])
       /\ state'.last_response_content = state'.node_outputs[next_node]
       /\ extract_routing_key(state'.node_outputs[next_node]) = <<"error">>
       /\ extract_routing_key(state'.node_outputs[next_node]) # default_routing_key
       /\ state'.node_outputs[next_node] # <<>>]_vars
C26_Witness ==
  /\ StepDone /\ llm_result = StrResult(<<Sp>>)
  /\ IsNodeErrorText(state.node_outputs[state.current_node_id])

\* ------------------------------------------------ claims on routing tables

\* C27: for every node of a compiled workflow, path_map is the node's
\* conditional_targets plus the default key mapped to its default_target,
\* and possible_keys is exactly the set of conditional-target keys; so every
\* possible key is a key of path_map, and every path_map value is a node id
\* of the workflow or the terminal marker.
C27_RoutingTables ==
  compiled_graph # NoGraph =>
    \A i \in 1..Len(Workflows[workflow]) :
      LET node == Workflows[workflow][i]
          entry == compiled_graph.table[node.id]
      IN /\ DOMAIN entry.path_map =
              DOMAIN node.conditional_targets \cup {default_routing_key}
         /\ entry.path_map[default_routing_key] = node.default_target
         /\ \A k \in DOMAIN node.conditional_targets :
              entry.path_map[k] = node.conditional_targets[k]
         /\ entry.possible_keys = DOMAIN node.conditional_targets
         /\ entry.possible_keys \subseteq DOMAIN entry.path_map
         /\ \A k \in DOMAIN entry.path_map :
              \/ entry.path_map[k] = end_node_id
              \/ \E j \in 1..Len(Workflows[workflow]) :
                   Workflows[workflow][j].id = entry.path_map[k]
C27_Witness ==
  /\ workflow = "C" /\ compiled_graph # NoGraph
  /\ compiled_graph.table["P"].possible_keys = {<<"yes">>, <<"no">>}
  /\ compiled_graph.table["P"].path_map[default_routing_key] = "Q"
  /\ compiled_graph.table["P"].path_map[<<"no">>] = end_node_id

\* ------------------------------------------------- claims on the run state

\* C28: every call of execute starts from a fresh state: input is the given
\* input, node_outputs, last_response_content and current_node_id are
\* empty, whatever an earlier run left; a run's state shows outputs of its
\* own steps only.
C28_FreshStatePerRun ==
  [][/\ (runs' = runs + 1 =>
           /\ state'.input \in Inputs
           /\ state'.node_outputs = <<>>
           /\ state'.last_response_content = <<>>
           /\ state'.current_node_id = ""
           /\ steps' = 0)
     /\ (status' = "running" =>
           Cardinality(DOMAIN state'.node_outputs) <= steps')]_vars
C28_Witness ==
  /\ workflow = "D" /\ runs = 2 /\ status = "running" /\ steps = 1
  /\ state.input = "go" /\ DOMAIN state.node_outputs = {"A"}

\* C29: during a run node_outputs has an entry for exactly the node ids
\* executed so far in it (none is removed, a node run again overwrites its
\* own entry only), and once a step was taken last_response_content is the
\* node_outputs entry of current_node_id.
C29_OutputsOfExecutedNodes ==
  status \in {"running", "completed", "failed"} =>
    /\ DOMAIN state.node_outputs = executed
    /\ Cardinality(executed) <= steps
    /\ (steps = 0 => executed = {} /\ state.last_response_content = <<>>)
    /\ (steps > 0 =>
          /\ state.current_node_id \in executed
          /\ state.last_response_content = state.node_outputs[state.current_node_id])
C29_Witness ==
  /\ workflow = "D" /\ status = "running" /\ steps = 4
  /\ executed = {"A", "B"} /\ state.current_node_id = "B"
  /\ state.node_outputs["A"] = DoneX
  /\ state.node_outputs["B"] = state.last_response_content

\* C30: a call of execute appends to the log it was passed the started line,
\* then the input-preview line, then exactly one closing line, completed or
\* failed; the lines the caller's log already held stay in front of them,
\* and nothing else is written to the log.
C30_LogLinesOfACall ==
  [][/\ (runs' = runs + 1 =>
           /\ passed_log' \in {<<>>, execution_log}
           /\ execution_log' = passed_log' \o <<"started", "input">>)
     /\ (status = "running" /\ status' = "running" =>
           execution_log' = execution_log)
     /\ (status = "running" /\ Finished' =>
           /\ execution_log = passed_log \o <<"started", "input">>
           /\ \E closing \in {"completed", "failed"} :
                execution_log' = passed_log \o <<"started", "input", closing>>)
     /\ (status # "running" /\ runs' = runs =>
           execution_log' = execution_log)
     /\ (runs' = runs => passed_log' = passed_log)]_vars
C30_Witness ==
  /\ Finished /\ runs = 2
  /\ passed_log = <<"started", "input", "completed">>
  /\ execution_log = passed_log \o <<"started", "input", "failed">>

\* C31: when the manager is initialized and the settings hold no credential,
\* reinitialize_if_needed leaves the manager without llm and without
\* llm_with_tools, not initialized, and returns False; a node step started
\* afterwards reaches no model call.
C31_ClearsWhenCredentialRemoved ==
  [][(/\ op' = "reinitialize_if_needed"
      /\ is_initialized(llm_manager)
      /\ openai_api_key = "") =>
       /\ ~llm_manager'.llm
       /\ ~llm_manager'.llm_with_tools
       /\ ~is_initialized(llm_manager')
       /\ ret' = Returned(FALSE, "")
       /\ ~Invokes(llm_manager')]_vars

\* C32: after any sequence of initialize calls (succeeding, or failing at
\* the model's construction or at the binding of the tools),
\* reinitialize_if_needed, clear, reads of the capabilities and changes of
\* the credential, a manager that reports is_initialized holds both the base
\* model and the tool-bound model.
C32_InitializedHasBothModels ==
  is_initialized(llm_manager) =>
    llm_manager.llm /\ llm_manager.llm_with_tools
C32_Witness ==
  /\ op = "reinitialize_if_needed"
  /\ is_initialized(llm_manager)
  /\ llm_manager.api_key = "k2"
  /\ llm_manager.llm_with_tools
  /\ ret = Returned(TRUE, "")

\* C33: whenever a load makes a workflow the session's current one (saved
\* workflows page, templates page, or the builder page's Load button), the
\* session afterwards holds no compiled graph and no recursion limit, so Run
\* is not offered until the loaded workflow has been compiled.
LoadOps == {"load_saved", "load_template", "load_builder"}
LoadStep == op' \in LoadOps /\ (op' # op \/ workflow' # workflow)
\* builder.py: Run is offered when the session holds a compiled graph.
RunOffered == compiled_graph # NoGraph
C33_LoadRemovesCompiledGraph ==
  [][LoadStep =>
       compiled_graph' = NoGraph /\ recursion_limit' = 0 /\ ~RunOffered']_vars

\* C34: enforcement of the routing key does not change the visible text:
\* for every content string and every list of possible keys, cleaning the
\* enforced content gives what cleaning the content gives, and the key
\* extracted from the enforced content is one of the possible keys or the
\* default key.
C34_EnsureKeepsVisibleText ==
  (op = "_ensure_routing_key" /\ isinstance_str(arg_content)) =>
    /\ clean_content(ret.str) = clean_content(arg_content)
    /\ extract_routing_key(ret.str) \in PossibleKeys \cup {default_routing_key}
    /\ HasTrailingMarkerKey(ret.str)
C34_Witness ==
  /\ op = "_ensure_routing_key" /\ arg_node = "yesno"
  /\ arg_content = DoneBogus
  /\ ret.str # arg_content
  /\ clean_content(ret.str) = <<"Done">>
  /\ extract_routing_key(ret.str) = default_routing_key
====
